---- MODULE Spec2Model ----
(***************************************************************************)
(* Model of the timeline core of look_at_the_world_you_see                 *)
(* (the bsky service, src/unnamed/part_000 lines 394-541):                 *)
(* resolveHandle, the follow-list request, the batched per-account feed    *)
(* requests of getMergedTimeline, the self-post filter, the projection to  *)
(* Post, the sort and the returned cursor map; and a caller that chains    *)
(* calls by handing the returned cursor map back ("load more").            *)
(*                                                                         *)
(* Strings that the code inspects are sequences of characters (a DID is    *)
(* <<"d","i","d",":",x>>); a continuation token is a string too, so the    *)
(* empty string, which JavaScript treats as falsy, is the empty sequence.  *)
(* A Map object lives in the heap `maps` under a reference that is never    *)
(* reused; objects nothing refers to any more leave the heap.               *)
(***************************************************************************)
EXTENDS Integers, Sequences, FiniteSets, TLC

\* ------------------------------------------------------------------ bounds
MaxFollows == 11       \* longest follow list the graph collaborator returns
MaxChainFollows == 3   \* longest follow list for which calls are chained
MaxCalls == 3          \* calls in one chain (first call plus "load more")
MaxPage == 2           \* most entries the feed collaborator puts in one page
MaxFetches == 4        \* calls one component makes
MaxLiveFetches == 3    \* calls one component makes where termination is checked

\* ------------------------------------------------------- program constants
batchSizeWide == 5 + 1
batchSize == 5         \* part_000:464
FollowsLimit == 30     \* part_000:458
FeedLimit == 10        \* part_000:472
HelperFollowsLimit == 50   \* part_000:446
DefaultFeedLimit == 10     \* part_000:450
UserTimelineLimit == 20    \* part_000:522

\* --------------------------------------------------------------- utilities
Min(a, b) == IF a < b THEN a ELSE b

Range(s) == {s[k] : k \in 1..Len(s)}

\* Array.prototype.slice(from, to) with 0-based, end-exclusive indices.
Slice(s, from, to) ==
  LET hi == Min(to, Len(s))
  IN  IF from >= hi THEN <<>> ELSE [k \in 1..(hi - from) |-> s[from + k]]

RECURSIVE Flat(_)
\* Array.prototype.flat() over a sequence of sequences.
Flat(ss) == IF ss = <<>> THEN <<>> ELSE Head(ss) \o Flat(Tail(ss))

\* A prefix test that leaves the last character of the prefix unchecked.
StartsWithLoose(s, prefix) ==
  /\ Len(s) >= Len(prefix)
  /\ \A k \in 1..(Len(prefix) - 1) : s[k] = prefix[k]

\* String.prototype.startsWith on character sequences.
StartsWith(s, prefix) ==
  /\ Len(s) >= Len(prefix)
  /\ \A k \in 1..Len(prefix) : s[k] = prefix[k]

\* ----------------------------------------------------------------- strings
undefined == <<"undefined">>          \* JavaScript's undefined
EmptyString == <<>>                   \* the string ""
DidPrefix == <<"d", "i", "d", ":">>   \* 'did:'
Did(x) == DidPrefix \o <<x>>
NoUnauthenticated == "!no-unauthenticated"
SkeletonReasonRepost == "app.bsky.feed.defs#skeletonReasonRepost"
ReasonRepost == "app.bsky.feed.defs#reasonRepost"

\* `if (x)` on an optional string: undefined and "" are falsy.
Truthy(c) == c # undefined /\ c # EmptyString

\* ---------------------------------------------------- the upstream network
\* The root account, given either as a DID or as a handle.
RootDid == Did("R")
RootHandle == <<"r", ".", "t">>
DidLikeHandle == <<"d", "i", "d", ".", "t">>   \* the handle 'did.t'
Handles == {RootDid, RootHandle, DidLikeHandle}

\* The identifier the resolution collaborator answers with for a handle.
Resolved(h) == RootDid

\* Accounts the root may follow, in the order the graph collaborator lists
\* them.
Pool == <<"A", "B", "C", "D", "E", "F", "G", "H", "I", "J", "K", "L">>

Uri(x, k) == <<x, k>>
AcctOf(d) == d[Len(DidPrefix) + 1]

NoReason == [present |-> FALSE, type |-> "", by |-> undefined]
RepostBy(x) == [present |-> TRUE, type |-> ReasonRepost, by |-> Did(x)]

\* indexedAt is a date string: a wall-clock reading and a zone offset.
At(wall, zone) == [wall |-> wall, zone |-> zone]

Entry(uri, author, at, reason) ==
  [post |-> [uri |-> uri, author |-> [did |-> author], indexedAt |-> at],
   reason |-> reason]

\* The author feed the collaborator holds for each account, newest first.
UpstreamFeed(x) ==
  CASE x = "A" -> << Entry(Uri("A", 1), Did("A"), At(5, 0), NoReason),
                     Entry(Uri("A", 2), Did("A"), At(3, 0), NoReason),
                     Entry(Uri("A", 3), Did("A"), At(1, 0), NoReason) >>
    [] x = "B" -> << Entry(Uri("R", 1), RootDid, At(9, 0), RepostBy("B")),
                     Entry(Uri("B", 1), Did("B"), At(8, 0), NoReason) >>
    [] x = "C" -> << >>
    [] x = "D" -> << Entry(Uri("D", 1), Did("D"), At(7, 2), NoReason) >>
    [] x = "E" -> << Entry(Uri("X", 1), Did("X"), At(6, 0), RepostBy("E")),
                     Entry(Uri("R", 2), RootDid, At(2, 0), RepostBy("E")) >>
    [] x = "Z" -> << Entry(Uri("X", 2), Did("X"), At(1, 0), RepostBy("Z")),
                     Entry(Uri("Z", 1), Did("Z"), At(3, 0), NoReason) >>
    [] x = "F" -> << Entry(Uri("F", 1), Did("F"), At(12, 0), NoReason),
                     Entry(Uri("F", 2), Did("F"), At(4, 0), NoReason),
                     Entry(Uri("F", 3), Did("F"), At(2, 1), NoReason) >>
    [] OTHER   -> << Entry(Uri(x, 1), Did(x), At(10, 1), NoReason) >>

\* Visibility labels of a followed profile: absent (null) or a list of values.
NoLabels == [present |-> FALSE, vals |-> <<>>]
Labels(vals) == [present |-> TRUE, vals |-> vals]

Profile(x, labels) == [did |-> Did(x), handle |-> x, labels |-> labels]

\* The follow list the graph collaborator holds for the root: the first n
\* accounts of Pool; the account at position hidden (0: none) carries the
\* authentication-required label, "B" another label, "C" an empty label list.
UpstreamFollows(n, hidden) ==
  [k \in 1..n |->
     Profile(Pool[k],
             IF k = hidden THEN Labels(<<"spam", NoUnauthenticated>>)
             ELSE IF Pool[k] = "B" THEN Labels(<<"porn">>)
             ELSE IF Pool[k] = "C" THEN Labels(<<>>)
             ELSE NoLabels)]

\* How a feed request for account x may end: rejected, or fulfilled with a
\* continuation token, with no cursor field, or with cursor "".
Outcomes(x) ==
  CASE x \in {"A", "B"} -> {"fail", "token", "none"}
    [] x = "C"          -> {"none", "empty"}
    [] x = "F"          -> {"fail", "token"}
    [] x = "G"          -> {"token", "none"}
    [] OTHER            -> {"token"}

\* A continuation token names the account and the offset reached.
Token(x, off) == <<x, off>>
OffsetOf(cursor) == IF Len(cursor) = 2 THEN cursor[2] ELSE 0

\* app.bsky.feed.getAuthorFeed: the page after `cursor`, at most `limit` long.
FeedPage(actor, limit, cursor) ==
  LET off == OffsetOf(cursor)
  IN  Slice(UpstreamFeed(AcctOf(actor)), off, off + Min(limit, MaxPage))

FeedResponse(actor, limit, cursor, kind) ==
  LET page == FeedPage(actor, limit, cursor)
  IN  [feed   |-> page,
       cursor |-> CASE kind = "token" ->
                         Token(AcctOf(actor), OffsetOf(cursor) + Len(page))
                    [] kind = "empty" -> EmptyString
                    [] OTHER          -> undefined]

\* The collaborator leaves the cursor out only with the last page of a feed.
MayAnswer(actor, limit, cursor, kind) ==
  kind = "none" =>
    OffsetOf(cursor) + Len(FeedPage(actor, limit, cursor))
      >= Len(UpstreamFeed(AcctOf(actor)))

\* app.bsky.graph.getFollows: one page of at most `limit` profiles.
FollowsPage(list, limit) == Slice(list, 0, limit)

\* Cursor maps a caller may supply to the first call.
SuppliedMap ==
  [d \in {Did(Pool[k]) : k \in 1..4} |-> Token(AcctOf(d), 1)]

\* ------------------------------------------------------------------- state
VARIABLES
  upstreamFollows, \* the follow list the graph collaborator holds for the root
  maps,            \* heap of live Map objects: reference |-> contents
  handle,          \* argument of getMergedTimeline
  cursorMap,       \* argument of getMergedTimeline: a Map object, 0: undefined
  pc,              \* where the call stands
  did,             \* resolved root identifier
  follows,         \* filtered follow list
  newCursorMap,    \* the Map object built by the call, 0 before it exists
  i,               \* loop index
  batch,           \* follows.slice(i, i + batchSize)
  feedPromises,    \* one slot per account of the batch
  allPosts,        \* posts gathered so far
  result,          \* the value the call resolved with
  callNo,          \* number of the call within the chain
  netLog,          \* the requests the current call sent, in order
  batchLog,        \* the batches issued by the current call, in order
  respLog,         \* how each feed request of the current call ended
  thrown,          \* the error a collaborator request outside the batches threw
  chain,           \* what the earlier calls of the chain did
  app,             \* the state hooks of the component (App.tsx:68-75)
  pending,         \* the calls the component awaits
  fetches,         \* how many calls the component has made
  api              \* a call of an exported helper and its requests

\* The variables of one getMergedTimeline chain, and those outside it.
core == << upstreamFollows, maps, handle, cursorMap, pc, did, follows,
           newCursorMap, i, batch, feedPromises, allPosts, result, callNo,
           netLog, batchLog, respLog, thrown, chain >>
outside == << app, pending, fetches, api >>

vars == << core, outside >>

\* ------------------------------------------------------ the code, pure part
\* new Date(s).getTime(): the instant a date string denotes.
DateGetTime(at) == at.wall - at.zone

\* The comparator with its operands exchanged: oldest first.
ComparePostsAscending(a, b) ==
  DateGetTime(a.indexedAt) - DateGetTime(b.indexedAt)

\* The comparator of the final sort (part_000:511-513).
ComparePosts(a, b) == DateGetTime(b.indexedAt) - DateGetTime(a.indexedAt)

\* Insert p into a sequence already ordered by the comparator, behind every
\* element the comparator does not place after it (a stable sort).
RECURSIVE InsertPost(_, _)
InsertPost(sorted, p) ==
  IF sorted = <<>> THEN <<p>>
  ELSE IF ComparePosts(Head(sorted), p) <= 0
       THEN <<Head(sorted)>> \o InsertPost(Tail(sorted), p)
       ELSE <<p>> \o sorted

RECURSIVE SortFrom(_, _)
SortFrom(sorted, rest) ==
  IF rest = <<>> THEN sorted
  ELSE SortFrom(InsertPost(sorted, Head(rest)), Tail(rest))

\* allPosts.sort(comparator)
SortPosts(posts) == SortFrom(<<>>, posts)

\* The filter looking at the first label only.
KeepFollowFirstLabel(profile) ==
  \/ ~profile.labels.present
  \/ profile.labels.vals = << >>
  \/ profile.labels.vals[1] # NoUnauthenticated

\* The follow-list filter (part_000:459-461).
KeepFollow(profile) ==
  \/ ~profile.labels.present
  \/ ~\E k \in 1..Len(profile.labels.vals) :
        profile.labels.vals[k] = NoUnauthenticated

FilterFollows(list) == SelectSeq(list, KeepFollow)

NoRepost == [present |-> FALSE, did |-> undefined]

\* The projection of a raw feed entry to a Post (part_000:488-505).  cid,
\* record and embed are copied through untouched and are left out.
ToPost(f) ==
  [uri        |-> f.post.uri,
   author     |-> [did |-> f.post.author.did],
   indexedAt  |-> f.post.indexedAt,
   repostedBy |-> IF f.reason.present /\ f.reason.type = SkeletonReasonRepost
                  THEN [present |-> TRUE, did |-> f.reason.by]
                  ELSE NoRepost]

\* The filter comparing the author with the handle as it was typed.
NotByHandle(rootDid, f) == f.post.author.did # handle

\* Exclude the target user's own posts (part_000:487).
NotBy(rootDid, f) == f.post.author.did # rootDid

\* batchFeeds.flat().filter(...).map(...)
BatchPosts(batchFeeds, rootDid) ==
  LET kept == SelectSeq(Flat(batchFeeds), LAMBDA f : NotBy(rootDid, f))
  IN  [k \in 1..Len(kept) |-> ToPost(kept[k])]

\* Map.prototype.get and Map.prototype.set on the contents of a Map.
EmptyMap == << >>
MapGet(m, k) == IF k \in DOMAIN m THEN m[k] ELSE undefined
MapSet(m, k, v) == [x \in (DOMAIN m) \cup {k} |-> IF x = k THEN v ELSE m[x]]

\* ------------------------------------------------------- state, continued
\* A slot of feedPromises: the cursor its request carried, and its outcome.
Pending(sent) == [state |-> "pending", sent |-> sent, value |-> <<>>]
Fulfilled(sent, v) == [state |-> "fulfilled", sent |-> sent, value |-> v]

Request(call, op, actor, limit, cursor) ==
  [call |-> call, op |-> op, actor |-> actor, limit |-> limit,
   cursor |-> cursor]

\* The errors the collaborator throws, and the absence of an error.
NoError == ""
ResolveError == "resolveHandle failed"
FollowsError == "getFollows failed"

\* The value a call settles with: posts and cursor map when it resolves, the
\* error when it rejects.
NoResult == [posts |-> <<>>, cursorMap |-> 0, error |-> NoError]

\* The heap with no object in it.
NoMaps == << >>

\* What is remembered of the earlier calls of a chain: the posts they
\* returned, the accounts they received feed entries from, and the accounts
\* that had an entry in a cursor map they returned.
NoChain == [seen |-> {}, fetched |-> {}, had |-> {}]

FeedRequests == SelectSeq(netLog, LAMBDA r : r.op = "getAuthorFeed")

Remember(c) ==
  [seen    |-> c.seen \cup {result.posts[k].uri : k \in 1..Len(result.posts)},
   fetched |-> c.fetched \cup
                 {q.actor : q \in {r \in respLog : r.ok /\ r.feed # << >>}},
   had     |-> c.had \cup (IF result.cursorMap = 0 THEN {}
                           ELSE DOMAIN maps[result.cursorMap])]

\* The look-up keyed by the root's identifier instead of the account's.
CursorForRoot(key) ==
  IF cursorMap = 0 THEN undefined ELSE MapGet(maps[cursorMap], did)

\* cursorMap?.get(key) on the argument of the call.
CursorFor(key) ==
  IF cursorMap = 0 THEN undefined ELSE MapGet(maps[cursorMap], key)

\* ------------------------------------------------- the presentation layer
\* The text of the handle input, and the route parameter of a TimelinePage.
NoHandle == ""
AppHandles == {"alice.t", "bob.t"}

\* What the state hooks hold when they hold nothing.
Null == "null"
NoUser == ""
NoMap == [root |-> NoHandle, of |-> 0]

\* The messages of the two catch blocks (App.tsx:98, 115).
TimelineError == "timeline fetch failed, check the ID"
UserError == "user posts fetch failed"

\* The author every post shown is attributed to.
Author == "u.t"

\* The initial state of the App component (App.tsx:68-75).
AppStart ==
  [screen |-> "App", handle |-> NoHandle, posts |-> << >>, loading |-> FALSE,
   error |-> Null, refreshing |-> FALSE, loadingMore |-> FALSE,
   cursorMap |-> NoMap, viewingUser |-> NoUser]

\* The initial state of a TimelinePage opened for the route parameter id
\* (part_000:64-73).
PageStart(id) ==
  [AppStart EXCEPT !.screen = "TimelinePage", !.handle = id, !.loading = TRUE]

\* The error the feed collaborator throws.
FeedError == "getAuthorFeed failed"

\* No helper call has been made.
ApiIdle ==
  [pc |-> "idle", fn |-> "", actor |-> undefined, netLog |-> << >>,
   answer |-> << >>, value |-> << >>, error |-> NoError]

\* No component is mounted.
Unmounted == [AppStart EXCEPT !.screen = "none"]

OutsideIdle ==
  /\ app = Unmounted
  /\ pending = {}
  /\ fetches = 0
  /\ api = ApiIdle

\* No call of getMergedTimeline has been made.
CallIdle ==
  /\ pc = "idle"
  /\ did = undefined
  /\ follows = << >>
  /\ newCursorMap = 0
  /\ i = 0
  /\ batch = << >>
  /\ feedPromises = << >>
  /\ allPosts = << >>
  /\ result = NoResult
  /\ callNo = 0
  /\ netLog = << >>
  /\ batchLog = << >>
  /\ respLog = {}
  /\ thrown = NoError
  /\ chain = NoChain

CoreIdle ==
  /\ upstreamFollows = << >>
  /\ handle = RootDid
  /\ maps = NoMaps
  /\ cursorMap = 0
  /\ CallIdle

\* A caller is about to call getMergedTimeline for the root, given in one of
\* its forms (the handle 'did.t' with the follow lists short enough to be
\* chained), with or without a cursor map.
Init ==
  /\ OutsideIdle
  /\ \E n \in 0..MaxFollows : \E hidden \in 0..n :
       upstreamFollows = UpstreamFollows(n, hidden)
  /\ handle \in Handles
  /\ handle = DidLikeHandle => Len(upstreamFollows) <= MaxChainFollows
  /\ \E m \in {"undefined", "empty", "entries"} :
       /\ maps = CASE m = "undefined" -> NoMaps
                   [] m = "empty"     -> [r \in {1} |-> EmptyMap]
                   [] OTHER           -> [r \in {1} |-> SuppliedMap]
       /\ cursorMap = IF m = "undefined" THEN 0 ELSE 1
  /\ CallIdle

\* ----------------------------------------------------------------- actions
\* The head of the for loop (part_000:467) with the loop index at idx and the
\* posts gathered so far: either the next batch is cut and its requests are
\* issued (468-474), or the loop ends, the posts are sorted and the call
\* resolves (510-518).
LoopFrom(idx, posts, fl, ncm) ==
  IF idx < Len(fl)
  THEN LET b == Slice(fl, idx, idx + batchSize)
       IN  /\ i' = idx
           /\ batch' = b
           /\ feedPromises' = [k \in 1..Len(b) |-> Pending(CursorFor(b[k].did))]
           /\ netLog' = netLog \o
                [k \in 1..Len(b) |->
                   Request(callNo, "getAuthorFeed", b[k].did, FeedLimit,
                           CursorFor(b[k].did))]
           /\ batchLog' = Append(batchLog, [k \in 1..Len(b) |-> b[k].did])
           /\ allPosts' = posts
           /\ pc' = "batch"
           /\ UNCHANGED << result, chain >>
  ELSE /\ i' = idx
       /\ batch' = << >>
       /\ feedPromises' = << >>
       /\ allPosts' = SortPosts(posts)
       /\ result' = [posts |-> SortPosts(posts), cursorMap |-> ncm,
                     error |-> NoError]
       /\ chain' = chain
       /\ pc' = "resolved"
       /\ UNCHANGED << netLog, batchLog >>

\* getMergedTimeline(handle, cm) up to its first await (part_000:456), where
\* it hands its promise to the caller: resolveHandle has returned a 'did:'
\* input at once without a request (440), or has asked the collaborator
\* (441). In both cases the call waits at the await and did is not yet
\* assigned.
Invoke(cm) ==
  /\ callNo' = callNo + 1
  /\ cursorMap' = cm
  /\ maps' = [r \in {cm} \ {0} |-> maps[r]]
  /\ chain' = Remember(chain)
  /\ respLog' = {}
  /\ thrown' = NoError
  /\ follows' = << >>
  /\ newCursorMap' = 0
  /\ i' = 0
  /\ batch' = << >>
  /\ feedPromises' = << >>
  /\ allPosts' = << >>
  /\ result' = NoResult
  /\ batchLog' = << >>
  /\ did' = undefined
  /\ pc' = "resolveHandle"
  /\ netLog' = IF StartsWith(handle, DidPrefix)
               THEN << >>
               ELSE << Request(callNo + 1, "resolveHandle", handle, 0,
                               undefined) >>
  /\ UNCHANGED outside
  /\ UNCHANGED << upstreamFollows, handle >>

\* The first call of a chain, with the cursor map the caller supplies.
FirstCall ==
  /\ pc = "idle"
  /\ Invoke(cursorMap)

\* "Load more": the next call is handed the cursor map the last one returned.
LoadMore ==
  /\ pc = "resolved"
  /\ callNo < MaxCalls
  /\ Len(upstreamFollows) <= MaxChainFollows
  /\ Invoke(result.cursorMap)

\* The await of part_000:456 resumes for a 'did:' input, whose promise
\* resolveHandle fulfilled with the input itself (440): the DID is the input
\* and the follow list is requested (458).
ResolveHandleReturns ==
  /\ pc = "resolveHandle"
  /\ StartsWith(handle, DidPrefix)
  /\ did' = handle
  /\ netLog' = Append(netLog, Request(callNo, "getFollows", did',
                                      FollowsLimit, undefined))
  /\ pc' = "getFollows"
  /\ UNCHANGED outside
  /\ UNCHANGED << thrown, upstreamFollows, maps, handle, cursorMap, follows,
                  newCursorMap, i, batch, feedPromises, allPosts, result,
                  callNo, batchLog, respLog, chain >>

\* agent.resolveHandle fulfils: the DID is taken and the follow list is
\* requested (part_000:442, 456-458).
ResolveHandleOk ==
  /\ pc = "resolveHandle"
  /\ ~StartsWith(handle, DidPrefix)
  /\ did' = Resolved(handle)
  /\ netLog' = Append(netLog, Request(callNo, "getFollows", did',
                                      FollowsLimit, undefined))
  /\ pc' = "getFollows"
  /\ UNCHANGED outside
  /\ UNCHANGED << thrown, upstreamFollows, maps, handle, cursorMap, follows,
                  newCursorMap, i, batch, feedPromises, allPosts, result,
                  callNo, batchLog, respLog, chain >>

\* agent.resolveHandle rejects: nothing catches it, the call rejects.
ResolveHandleFail ==
  /\ pc = "resolveHandle"
  /\ ~StartsWith(handle, DidPrefix)
  /\ pc' = "rejected"
  /\ thrown' = ResolveError
  /\ result' = [NoResult EXCEPT !.error = ResolveError]
  /\ UNCHANGED outside
  /\ UNCHANGED << upstreamFollows, maps, handle, cursorMap, did, follows,
                  newCursorMap, i, batch, feedPromises, allPosts, callNo,
                  netLog, batchLog, respLog, chain >>

\* new Map<string, string>() (part_000:463): the contents of the new object.
NewMapContents == EmptyMap

\* getFollows fulfils: the list is filtered, the new Map is made and the loop
\* is entered (part_000:459-467).
GetFollowsOk ==
  /\ pc = "getFollows"
  /\ follows' = FilterFollows(FollowsPage(upstreamFollows, FollowsLimit))
  /\ maps' = MapSet(maps, callNo + 1, NewMapContents)
  /\ newCursorMap' = callNo + 1
  /\ LoopFrom(0, << >>, follows', newCursorMap')
  /\ UNCHANGED outside
  /\ UNCHANGED << thrown, upstreamFollows, handle, cursorMap, did, callNo, respLog >>

\* The follow-list failure caught and taken for an empty follow list.
GetFollowsFailSwallowed ==
  /\ pc = "getFollows"
  /\ thrown' = FollowsError
  /\ pc' = "resolved"
  /\ UNCHANGED outside
  /\ UNCHANGED << upstreamFollows, maps, handle, cursorMap, did, follows,
                  newCursorMap, i, batch, feedPromises, allPosts, result,
                  callNo, netLog, batchLog, respLog, chain >>

\* getFollows rejects: the call rejects.
GetFollowsFail ==
  /\ pc = "getFollows"
  /\ pc' = "rejected"
  /\ thrown' = FollowsError
  /\ result' = [NoResult EXCEPT !.error = FollowsError]
  /\ UNCHANGED outside
  /\ UNCHANGED << upstreamFollows, maps, handle, cursorMap, did, follows,
                  newCursorMap, i, batch, feedPromises, allPosts, callNo,
                  netLog, batchLog, respLog, chain >>

\* The callback without the test on res.data.cursor.
ThenCallbackAlways(heap, ncm, key, res) ==
  [heap EXCEPT ![ncm] = MapSet(@, key, res.cursor)]

\* The callback writing into the Map the caller supplied, when there is one.
ThenCallbackInPlace(heap, ncm, key, res) ==
  IF Truthy(res.cursor)
  THEN [heap EXCEPT ![IF cursorMap = 0 THEN ncm ELSE cursorMap] =
                       MapSet(@, key, res.cursor)]
  ELSE heap

\* The .then callback of one feed request (part_000:475-478), on the heap.
ThenCallback(heap, ncm, key, res) ==
  IF Truthy(res.cursor)
  THEN [heap EXCEPT ![ncm] = MapSet(@, key, res.cursor)]
  ELSE heap

\* A feed request whose callback pushes its posts onto the shared array the
\* moment it fulfils, instead of handing them to its slot of the batch.
FeedOkPushes(k, kind) ==
  /\ pc = "batch"
  /\ feedPromises[k].state = "pending"
  /\ kind \in Outcomes(AcctOf(batch[k].did)) \ {"fail"}
  /\ MayAnswer(batch[k].did, FeedLimit, feedPromises[k].sent, kind)
  /\ LET sent == feedPromises[k].sent
         res == FeedResponse(batch[k].did, FeedLimit, sent, kind)
     IN  /\ maps' = ThenCallback(maps, newCursorMap, batch[k].did, res)
         /\ feedPromises' = [feedPromises EXCEPT ![k] = Fulfilled(sent, << >>)]
         /\ allPosts' = allPosts \o BatchPosts(<< res.feed >>, did)
         /\ respLog' = respLog \cup
              {[call |-> callNo, actor |-> batch[k].did, ok |-> TRUE,
                feed |-> res.feed, cursor |-> res.cursor]}
  /\ UNCHANGED outside
  /\ UNCHANGED << thrown, upstreamFollows, handle, cursorMap, pc, did, follows,
                  newCursorMap, i, batch, result, callNo, netLog, batchLog,
                  chain >>

\* A feed request of the batch fulfils.
FeedOk(k, kind) ==
  /\ pc = "batch"
  /\ feedPromises[k].state = "pending"
  /\ kind \in Outcomes(AcctOf(batch[k].did)) \ {"fail"}
  /\ MayAnswer(batch[k].did, FeedLimit, feedPromises[k].sent, kind)
  /\ LET sent == feedPromises[k].sent
         res == FeedResponse(batch[k].did, FeedLimit, sent, kind)
     IN  /\ maps' = ThenCallback(maps, newCursorMap, batch[k].did, res)
         /\ feedPromises' = [feedPromises EXCEPT ![k] = Fulfilled(sent, res.feed)]
         /\ respLog' = respLog \cup
              {[call |-> callNo, actor |-> batch[k].did, ok |-> TRUE,
                feed |-> res.feed, cursor |-> res.cursor]}
  /\ UNCHANGED outside
  /\ UNCHANGED << thrown, upstreamFollows, handle, cursorMap, pc, did, follows,
                  newCursorMap, i, batch, allPosts, result, callNo, netLog,
                  batchLog, chain >>

\* The value the .catch callback substitutes (part_000:479-482).
CatchCallback == << >>

\* A rejected feed request with no .catch: the rejection reaches Promise.all
\* and the call rejects.
FeedFailRejects(k) ==
  /\ pc = "batch"
  /\ feedPromises[k].state = "pending"
  /\ "fail" \in Outcomes(AcctOf(batch[k].did))
  /\ pc' = "rejected"
  /\ respLog' = respLog \cup
       {[call |-> callNo, actor |-> batch[k].did, ok |-> FALSE,
         feed |-> << >>, cursor |-> undefined]}
  /\ UNCHANGED outside
  /\ UNCHANGED << thrown, upstreamFollows, maps, handle, cursorMap, did, follows,
                  newCursorMap, i, batch, feedPromises, allPosts, result,
                  callNo, netLog, batchLog, chain >>

\* A rejected feed request sent once more before the failure is given up.
FeedFailRetry(k) ==
  /\ pc = "batch"
  /\ feedPromises[k].state = "pending"
  /\ "fail" \in Outcomes(AcctOf(batch[k].did))
  /\ LET again == batch[k].did \notin {q.actor : q \in respLog}
     IN  /\ feedPromises' =
              IF again THEN feedPromises
              ELSE [feedPromises EXCEPT
                      ![k] = Fulfilled(feedPromises[k].sent, CatchCallback)]
         /\ netLog' =
              IF again
              THEN Append(netLog, Request(callNo, "getAuthorFeed", batch[k].did,
                                          FeedLimit, feedPromises[k].sent))
              ELSE netLog
  /\ respLog' = respLog \cup
       {[call |-> callNo, actor |-> batch[k].did, ok |-> FALSE,
         feed |-> << >>, cursor |-> undefined]}
  /\ UNCHANGED outside
  /\ UNCHANGED << thrown, upstreamFollows, maps, handle, cursorMap, pc, did,
                  follows, newCursorMap, i, batch, allPosts, result, callNo,
                  batchLog, chain >>

\* A feed request of the batch rejects.
FeedFail(k) ==
  /\ pc = "batch"
  /\ feedPromises[k].state = "pending"
  /\ "fail" \in Outcomes(AcctOf(batch[k].did))
  /\ feedPromises' =
       [feedPromises EXCEPT ![k] = Fulfilled(feedPromises[k].sent, CatchCallback)]
  /\ respLog' = respLog \cup
       {[call |-> callNo, actor |-> batch[k].did, ok |-> FALSE,
         feed |-> << >>, cursor |-> undefined]}
  /\ UNCHANGED outside
  /\ UNCHANGED << thrown, upstreamFollows, maps, handle, cursorMap, pc, did, follows,
                  newCursorMap, i, batch, allPosts, result, callNo, netLog,
                  batchLog, chain >>

\* The loop going on as soon as one request of the batch has settled.
BatchDoneEarly ==
  /\ pc = "batch"
  /\ \E k \in 1..Len(feedPromises) : feedPromises[k].state = "fulfilled"
  /\ LET batchFeeds == [k \in 1..Len(feedPromises) |-> feedPromises[k].value]
     IN  LoopFrom(i + batchSize, allPosts \o BatchPosts(batchFeeds, did),
                  follows, newCursorMap)
  /\ UNCHANGED outside
  /\ UNCHANGED << thrown, upstreamFollows, maps, handle, cursorMap, did, follows,
                  newCursorMap, callNo, respLog >>

\* Promise.all fulfils: the batch's posts are appended and the loop goes on
\* (part_000:485-508).
BatchDone ==
  /\ pc = "batch"
  /\ \A k \in 1..Len(feedPromises) : feedPromises[k].state = "fulfilled"
  /\ LET batchFeeds == [k \in 1..Len(feedPromises) |-> feedPromises[k].value]
     IN  LoopFrom(i + batchSize, allPosts \o BatchPosts(batchFeeds, did),
                  follows, newCursorMap)
  /\ UNCHANGED outside
  /\ UNCHANGED << thrown, upstreamFollows, maps, handle, cursorMap, did, follows,
                  newCursorMap, callNo, respLog >>

Next ==
  \/ FirstCall
  \/ LoadMore
  \/ ResolveHandleReturns
  \/ ResolveHandleOk
  \/ ResolveHandleFail
  \/ GetFollowsOk
  \/ GetFollowsFail
  \/ \E k \in 1..Len(feedPromises) :
       \E kind \in {"token", "none", "empty"} : FeedOk(k, kind)
  \/ \E k \in 1..Len(feedPromises) : FeedFail(k)
  \/ BatchDone

Spec == Init /\ [][Next]_vars

TypeOK ==
  /\ pc \in {"idle", "resolveHandle", "getFollows", "batch", "resolved",
             "rejected"}
  /\ callNo \in 0..MaxCalls
  /\ cursorMap \in {0} \cup DOMAIN maps
  /\ newCursorMap \in {0} \cup DOMAIN maps

\* ------------------------------------------- the presentation layer, steps
\* A call the component awaits.
Call(fn, kind, h, cm) ==
  [id |-> fetches + 1, fn |-> fn, kind |-> kind, handle |-> h,
   cursorMap |-> cm]

\* The posts and the cursor map a getMergedTimeline call for handle h,
\* numbered id, may resolve with: no post or one, and a Map of its own.
MergedResults(id, h) ==
  {[posts |-> p, cursorMap |-> [root |-> h, of |-> id]] :
     p \in {<< >>, << [of |-> id, via |-> "getMergedTimeline",
                        author |-> Author] >>}}

\* The posts a getUserTimeline call may resolve with.
UserResults(id, user) ==
  {<< >>, << [of |-> id, via |-> "getUserTimeline", author |-> user] >>}

InitApp ==
  /\ CoreIdle
  /\ \/ app = AppStart
     \/ \E id \in AppHandles : app = PageStart(id)
  /\ pending = {}
  /\ fetches = 0
  /\ api = ApiIdle

\* fetchTimeline(isRefreshing, isLoadMore) up to its await (App.tsx:72-89,
\* part_000:81-98): the two early returns, the flag of the kind of fetch,
\* the error cleared, the user view left unless more is loaded, and
\* getMergedTimeline called with the stored cursor map only to load more.
fetchTimeline(isRefreshing, isLoadMore) ==
  IF app.handle = NoHandle \/ (isLoadMore /\ app.loadingMore)
  THEN UNCHANGED << app, pending, fetches >>
  ELSE LET kind == IF isLoadMore THEN "more"
                   ELSE IF isRefreshing THEN "refresh" ELSE "open"
           c == Call("getMergedTimeline", kind, app.handle,
                     IF isLoadMore THEN app.cursorMap ELSE NoMap)
       IN  /\ app' = [app EXCEPT
                !.loadingMore = IF isLoadMore THEN TRUE ELSE @,
                !.refreshing = IF ~isLoadMore /\ isRefreshing THEN TRUE ELSE @,
                !.loading = IF ~isLoadMore /\ ~isRefreshing THEN TRUE ELSE @,
                !.error = Null,
                !.viewingUser = IF isLoadMore \/ app.screen # "App"
                                THEN @ ELSE NoUser]
           /\ pending' = pending \cup {c}
           /\ fetches' = fetches + 1

\* The effect of a TimelinePage on mount: the first fetch for the route
\* parameter (part_000:75-79).
Mount ==
  /\ app.screen = "TimelinePage"
  /\ fetches = 0
  /\ fetchTimeline(FALSE, FALSE)
  /\ UNCHANGED << core, api >>

\* The text of the handle input is changed (App.tsx:193-199).
EditHandle(h) ==
  /\ app.screen = "App"
  /\ h # app.handle
  /\ app' = [app EXCEPT !.handle = h]
  /\ UNCHANGED << core, pending, fetches, api >>

\* The button of the header is pressed (App.tsx:199); it is disabled while
\* loading.
PressOpen ==
  /\ app.screen = "App"
  /\ ~app.loading
  /\ fetches < MaxFetches
  /\ fetchTimeline(FALSE, FALSE)
  /\ UNCHANGED << core, api >>

\* The back button, shown while a user is viewed, is pressed (App.tsx:202-206).
PressBack ==
  /\ app.screen = "App"
  /\ app.viewingUser # NoUser
  /\ fetches < MaxFetches
  /\ fetchTimeline(FALSE, FALSE)
  /\ UNCHANGED << core, api >>

\* The list, rendered when not loading, is pulled down (App.tsx:220-226,
\* part_000:212-218).
PullRefresh ==
  /\ ~app.loading
  /\ fetches < MaxFetches
  /\ fetchTimeline(TRUE, FALSE)
  /\ UNCHANGED << core, api >>

\* The end of the list is reached (App.tsx:227-231, part_000:219-223).
EndReached ==
  /\ ~app.loading
  /\ app.viewingUser = NoUser /\ app.posts # << >>
  /\ fetches < MaxFetches
  /\ fetchTimeline(FALSE, TRUE)
  /\ UNCHANGED << core, api >>

\* The avatar of a post of the list is tapped: fetchUserTimeline up to its
\* await (App.tsx:107-112, 166).
TapAvatar(k) ==
  /\ app.screen = "App"
  /\ ~app.loading
  /\ k \in 1..Len(app.posts)
  /\ fetches < MaxFetches
  /\ LET user == app.posts[k].author
         c == Call("getUserTimeline", "user", user, NoMap)
     IN  /\ app' = [app EXCEPT !.loading = TRUE, !.error = Null,
                               !.viewingUser = user]
         /\ pending' = pending \cup {c}
         /\ fetches' = fetches + 1
  /\ UNCHANGED << core, api >>

\* A finally block that leaves loadingMore as it is.
FinallyKeepsLoadingMore(a) ==
  [a EXCEPT !.loading = FALSE, !.refreshing = FALSE]

\* The finally block of fetchTimeline (App.tsx:99-103, part_000:108-112).
Finally(a) ==
  [a EXCEPT !.loading = FALSE, !.refreshing = FALSE, !.loadingMore = FALSE]

\* An awaited getMergedTimeline resolves: the posts are appended or replace
\* the list, the cursor map is stored (App.tsx:91-96, part_000:100-105).
MergedResolves(c, r) ==
  /\ c \in pending /\ c.fn = "getMergedTimeline"
  /\ r \in MergedResults(c.id, c.handle)
  /\ app' = Finally([app EXCEPT
               !.posts = IF c.kind = "more" THEN @ \o r.posts ELSE r.posts,
               !.cursorMap = r.cursorMap])
  /\ pending' = pending \ {c}
  /\ UNCHANGED << core, fetches, api >>

\* A catch block that also empties the list and forgets the cursor map.
MergedRejectsClears(c) ==
  /\ c \in pending /\ c.fn = "getMergedTimeline"
  /\ app' = Finally([app EXCEPT !.error = TimelineError, !.posts = << >>,
                                !.cursorMap = NoMap])
  /\ pending' = pending \ {c}
  /\ UNCHANGED << core, fetches, api >>

\* An awaited getMergedTimeline rejects: the message is set (App.tsx:97-98,
\* part_000:106-107).
MergedRejects(c) ==
  /\ c \in pending /\ c.fn = "getMergedTimeline"
  /\ app' = Finally([app EXCEPT !.error = TimelineError])
  /\ pending' = pending \ {c}
  /\ UNCHANGED << core, fetches, api >>

\* An awaited getUserTimeline resolves (App.tsx:112-113, 117-118).
UserResolves(c, timeline) ==
  /\ c \in pending /\ c.fn = "getUserTimeline"
  /\ timeline \in UserResults(c.id, c.handle)
  /\ app' = [app EXCEPT !.posts = timeline, !.loading = FALSE]
  /\ pending' = pending \ {c}
  /\ UNCHANGED << core, fetches, api >>

\* An awaited getUserTimeline rejects (App.tsx:114-118).
UserRejects(c) ==
  /\ c \in pending /\ c.fn = "getUserTimeline"
  /\ app' = [app EXCEPT !.error = UserError, !.loading = FALSE]
  /\ pending' = pending \ {c}
  /\ UNCHANGED << core, fetches, api >>

NextApp ==
  \/ Mount
  \/ \E h \in AppHandles \cup {NoHandle} : EditHandle(h)
  \/ PressOpen
  \/ PressBack
  \/ PullRefresh
  \/ EndReached
  \/ \E k \in 1..Len(app.posts) : TapAvatar(k)
  \/ \E c \in pending : \E r \in MergedResults(c.id, c.handle) :
       MergedResolves(c, r)
  \/ \E c \in pending : MergedRejects(c)
  \/ \E c \in pending : \E t \in UserResults(c.id, c.handle) :
       UserResolves(c, t)
  \/ \E c \in pending : UserRejects(c)

SpecApp == InitApp /\ [][NextApp]_vars

\* ------------------------------------------------------------ termination
\* A collaborator request of the current getMergedTimeline call settles.
CollaboratorSettles ==
  \/ ResolveHandleOk
  \/ ResolveHandleFail
  \/ GetFollowsOk
  \/ GetFollowsFail
  \/ \E k \in 1..Len(feedPromises) :
       \E kind \in {"token", "none", "empty"} : FeedOk(k, kind)
  \/ \E k \in 1..Len(feedPromises) : FeedFail(k)

\* Promise.all has fulfilled and its continuation, BatchDone, has yet to run.
PromiseAllFulfilled ==
  /\ pc = "batch"
  /\ \A k \in 1..Len(feedPromises) : feedPromises[k].state = "fulfilled"

\* A call the component awaits settles.
AwaitSettles ==
  \/ \E c \in pending : \E r \in MergedResults(c.id, c.handle) :
       MergedResolves(c, r)
  \/ \E c \in pending : MergedRejects(c)
  \/ \E c \in pending : \E t \in UserResults(c.id, c.handle) :
       UserResolves(c, t)
  \/ \E c \in pending : UserRejects(c)

\* Either getMergedTimeline is called by some caller with no component
\* mounted, for a handle or a DID, the longest follow list that is chained
\* or (for a handle) the longest there is, and no cursor map; or a component
\* is mounted.
InitLive ==
  \/ /\ Init
     /\ handle \in {RootHandle, RootDid}
     /\ cursorMap = 0
     /\ Len(upstreamFollows) \in {MaxChainFollows, MaxFollows}
     /\ handle = RootDid => Len(upstreamFollows) = MaxChainFollows
  \/ InitApp

\* The chain of calls of a caller goes on while no component is mounted; a
\* mounted component makes up to MaxLiveFetches calls.
NextLive ==
  \/ app = Unmounted /\ Next
  \/ NextApp /\ fetches' <= MaxLiveFetches

\* Every collaborator request and every awaited call settles in the end, and
\* a continuation whose promise is fulfilled runs: the one after the await of
\* resolveHandle for a 'did:' input, and the one of Promise.all once the batch
\* has settled. BatchDone is the one step enabled then and it ends that
\* state, so its weak fairness is that the call is again and again not
\* waiting for the continuation.
SpecLive ==
  /\ InitLive
  /\ [][NextLive]_vars
  /\ WF_vars(CollaboratorSettles)
  /\ WF_vars(ResolveHandleReturns)
  /\ []<>~PromiseAllFulfilled
  /\ WF_vars(AwaitSettles)

\* ------------------------------------------------- the exported helpers
\* The accounts the helpers are called for; "Z" is followed by nobody here
\* and its feed opens with a repost of an old post.
ApiActors == {Did("A"), Did("B"), Did("C"), Did("E"), Did("Z")}

InitApi ==
  /\ OutsideIdle
  /\ \E n \in 0..MaxFollows : \E hidden \in 0..n :
       upstreamFollows = UpstreamFollows(n, hidden)
  /\ handle = RootDid
  /\ maps = NoMaps
  /\ cursorMap = 0
  /\ CallIdle

\* A helper called for `actor`, up to the await of its one request.
Awaiting(fn, actor, op, limit) ==
  [ApiIdle EXCEPT !.pc = "awaiting", !.fn = fn, !.actor = actor,
                  !.netLog = << Request(0, op, actor, limit, undefined) >>]

\* getFollows(actor) is called (part_000:445-446).
CallGetFollows ==
  /\ api.pc = "idle"
  /\ api' = Awaiting("getFollows", RootDid, "getFollows", HelperFollowsLimit)
  /\ UNCHANGED << core, app, pending, fetches >>

\* getAuthorFeed(actor, limit) is called, with the limit or without
\* (part_000:450-451).
CallGetAuthorFeed(actor, given, limit) ==
  /\ api.pc = "idle"
  /\ api' = Awaiting("getAuthorFeed", actor, "getAuthorFeed",
                     IF given THEN limit ELSE DefaultFeedLimit)
  /\ UNCHANGED << core, app, pending, fetches >>

\* getUserTimeline(actor) is called: getAuthorFeed(actor, 20)
\* (part_000:521-522, 450-451).
CallGetUserTimeline(actor) ==
  /\ api.pc = "idle"
  /\ api' = Awaiting("getUserTimeline", actor, "getAuthorFeed",
                     UserTimelineLimit)
  /\ UNCHANGED << core, app, pending, fetches >>

\* The projection that also sorts the posts newest first.
UserTimelineSorted(feed) == SortPosts([k \in 1..Len(feed) |-> ToPost(feed[k])])

\* feed.map(...) of getUserTimeline (part_000:523-540).
UserTimeline(feed) == [k \in 1..Len(feed) |-> ToPost(feed[k])]

\* The request of the helper fulfils: res.data.follows or res.data.feed is
\* returned, projected by getUserTimeline (part_000:447, 452, 523).
HelperOk ==
  /\ api.pc = "awaiting"
  /\ LET r == api.netLog[1]
         answer == IF r.op = "getFollows"
                   THEN FollowsPage(upstreamFollows, r.limit)
                   ELSE FeedPage(r.actor, r.limit, r.cursor)
     IN  api' = [api EXCEPT
                   !.pc = "fulfilled",
                   !.answer = answer,
                   !.value = IF api.fn = "getUserTimeline"
                             THEN UserTimeline(answer) ELSE answer]
  /\ UNCHANGED << core, app, pending, fetches >>

\* The request of the helper rejects: nothing catches it.
HelperFail ==
  /\ api.pc = "awaiting"
  /\ api' = [api EXCEPT !.pc = "rejected",
                        !.error = IF api.netLog[1].op = "getFollows"
                                  THEN FollowsError ELSE FeedError]
  /\ UNCHANGED << core, app, pending, fetches >>

NextApi ==
  \/ CallGetFollows
  \/ \E actor \in ApiActors : \E given \in BOOLEAN : \E limit \in 1..MaxPage :
       CallGetAuthorFeed(actor, given, limit)
  \/ \E actor \in ApiActors : CallGetUserTimeline(actor)
  \/ HelperOk
  \/ HelperFail

SpecApi == InitApi /\ [][NextApi]_vars

\* ------------------------------------------------------------------ claims
\* Shorthands for the claims.
ResultMap == maps[result.cursorMap]
SuppliedContents == IF cursorMap = 0 THEN EmptyMap ELSE maps[cursorMap]
FollowDids == {follows[k].did : k \in 1..Len(follows)}
ResultUris == {result.posts[k].uri : k \in 1..Len(result.posts)}
Failed == {r.actor : r \in {q \in respLog : ~q.ok}}
GaveToken ==
  {q \in respLog : q.ok /\ q.cursor # undefined /\ q.cursor # EmptyString}

\* C1: the posts a call resolves with are ordered by the instant of their
\* indexing timestamp, newest first: for positions a < b the instant of
\* posts[a] is not before that of posts[b].
C1_SortedNewestFirst ==
  pc = "resolved" =>
    \A a, b \in 1..Len(result.posts) :
      a < b => DateGetTime(result.posts[a].indexedAt)
                 >= DateGetTime(result.posts[b].indexedAt)

\* C1 witness: a call resolved with four or more posts, one feed request
\* having failed, and two posts whose date strings are ordered the other way
\* round than their places (their zones differ).
C1_Witness ==
  /\ pc = "resolved"
  /\ Len(result.posts) >= 4
  /\ Failed # {}
  /\ \E a, b \in 1..Len(result.posts) :
       a < b /\ result.posts[a].indexedAt.wall < result.posts[b].indexedAt.wall

\* C2: no post a call resolves with is written by the resolved root
\* identifier, whether the root was given as a handle or as a DID, and also
\* when a followed account's feed holds reposts of the root's posts.
C2_NoSelfPosts ==
  pc = "resolved" =>
    /\ did = RootDid
    /\ \A k \in 1..Len(result.posts) : result.posts[k].author.did # did

\* C2 witness: the root was given as a handle, a fetched page held a repost
\* of a post of the root, and the call resolved with posts.
C2_Witness ==
  /\ pc = "resolved"
  /\ handle = RootHandle
  /\ result.posts # << >>
  /\ \E r \in respLog : \E k \in 1..Len(r.feed) :
       r.feed[k].post.author.did = did /\ r.feed[k].reason.present

\* What the accounts whose request did not fail hold in the page asked for,
\* the root's own posts left out.
ExpectedUris ==
  {e.post.uri :
     e \in {x \in UNION {Range(FeedPage(d, FeedLimit, CursorFor(d))) :
                           d \in FollowDids \ Failed} :
              x.post.author.did # RootDid}}

\* C3: feed requests that fail never make the call reject (a rejected call
\* has sent no feed request); the call resolves with exactly the posts, other
\* than the root's, of the accounts whose request did not fail; no failed
\* account has an entry in the returned cursor map; and when every request
\* failed the posts and the cursor map are empty.
C3_PartialFailure ==
  /\ pc = "rejected" => FeedRequests = << >>
  /\ pc = "resolved" =>
       /\ ResultUris = ExpectedUris
       /\ Len(result.posts) = Cardinality(ExpectedUris)
       /\ Failed \cap DOMAIN ResultMap = {}
       /\ Failed = FollowDids =>
            result.posts = << >> /\ ResultMap = EmptyMap

\* C3 witness: a call resolved although some, not all, feed requests failed,
\* and it returned posts and cursor entries of the others.
C3_Witness ==
  /\ pc = "resolved"
  /\ Failed # {}
  /\ Failed # FollowDids
  /\ result.posts # << >>
  /\ DOMAIN ResultMap # {}

\* C4: in a call that is handed the cursor map the previous call returned,
\* the feed request for each account carries exactly the entry of that map
\* for this account, or no cursor when the map has none, and a token it
\* carries was issued for this very account.
C4_OwnToken ==
  callNo >= 2 =>
    /\ cursorMap = callNo
    /\ \A k \in 1..Len(FeedRequests) :
         LET r == FeedRequests[k]
         IN  /\ r.cursor = MapGet(SuppliedContents, r.actor)
             /\ r.cursor # undefined => r.cursor[1] = AcctOf(r.actor)

\* C4 witness: the second call sent requests with tokens for two different
\* accounts and a request with no cursor for a third.
C4_Witness ==
  /\ callNo = 2
  /\ \E a, b, c \in 1..Len(FeedRequests) :
       /\ FeedRequests[a].actor # FeedRequests[b].actor
       /\ Truthy(FeedRequests[a].cursor)
       /\ Truthy(FeedRequests[b].cursor)
       /\ FeedRequests[c].cursor = undefined

\* C5: never more than 5 feed requests are pending; and the batches a
\* resolved call issued are the filtered follow list cut in order into
\* ceil(n/5) pieces, each of 5 accounts but possibly the last.
C5_BoundedBatches ==
  /\ Cardinality({k \in DOMAIN feedPromises :
                    feedPromises[k].state = "pending"}) <= 5
  /\ pc = "resolved" =>
       LET n == Len(follows)
       IN  /\ Flat(batchLog) = [k \in 1..n |-> follows[k].did]
           /\ Len(batchLog) = (n + 4) \div 5
           /\ \A b \in 1..Len(batchLog) :
                Len(batchLog[b]) =
                  IF b < Len(batchLog) THEN 5 ELSE n - 5 * (b - 1)

\* C5 witness: a call resolved after three batches.
C5_Witness ==
  /\ pc = "resolved"
  /\ Len(batchLog) = 3
  /\ Len(follows) > 10

\* C6: whenever a batch is issued, every request of the batch before it has
\* settled.
C6_BatchesInSequence ==
  [][batchLog' # batchLog /\ pc' = "batch" =>
       \A k \in DOMAIN feedPromises : feedPromises[k].state = "fulfilled"]_vars

\* C6 witness: the second batch is pending after a request of the first
\* batch failed.
C6_Witness ==
  /\ pc = "batch"
  /\ Len(batchLog) = 2
  /\ \E k \in DOMAIN feedPromises : feedPromises[k].state = "pending"
  /\ allPosts # << >>
  /\ Failed \cap Range(batchLog[1]) # {}

\* C7 (as claimed): in a chain of calls no account that an earlier call
\* received feed entries from is asked again without a cursor, and no post is
\* returned by two calls of the chain.
C7_NoRefetch ==
  /\ \A k \in 1..Len(FeedRequests) :
       FeedRequests[k].actor \in chain.fetched =>
         FeedRequests[k].cursor # undefined
  /\ pc = "resolved" => ResultUris \cap chain.seen = {}

\* C8 (as claimed): an account that had an entry in a cursor map returned
\* earlier in the chain has an entry in every cursor map returned later.
\* The code starts every call with an empty map (part_000:463) and writes an
\* entry only for a response that carries a token (part_000:476), so the
\* entry of an account that stops returning a token is lost.
C8_EntriesKept ==
  pc = "resolved" => chain.had \subseteq DOMAIN ResultMap

\* C9: the cursor map a call returns has an entry for exactly the accounts of
\* the filtered follow list whose request was answered with a non-empty
\* continuation token, and the entry is that token.
C9_CursorMapEntries ==
  pc = "resolved" =>
    /\ DOMAIN ResultMap = {q.actor : q \in GaveToken} \cap FollowDids
    /\ \A q \in GaveToken : ResultMap[q.actor] = q.cursor

\* C9 witness: a call resolved after one request was answered with a token,
\* one with no cursor, one with cursor "" and one failed.
C9_Witness ==
  /\ pc = "resolved"
  /\ GaveToken # {}
  /\ Failed # {}
  /\ \E q \in respLog : q.ok /\ q.cursor = undefined
  /\ \E q \in respLog : q.ok /\ q.cursor = EmptyString

\* C10: no step of a call changes the contents of the Map the caller
\* supplied, and the Map the call builds is another object.
C10_SuppliedMapUntouched ==
  [][/\ cursorMap # 0 /\ cursorMap' = cursorMap =>
          cursorMap \in DOMAIN maps' /\ maps'[cursorMap] = maps[cursorMap]
     /\ newCursorMap' # 0 => newCursorMap' # cursorMap']_vars

\* C10 witness: the first call was given a Map with entries and resolved with
\* a Map holding other entries, a feed request having failed.
C10_Witness ==
  /\ pc = "resolved"
  /\ callNo = 1
  /\ cursorMap # 0
  /\ maps[cursorMap] = SuppliedMap
  /\ ResultMap # EmptyMap
  /\ ResultMap # maps[cursorMap]
  /\ Failed # {}
\* The followed accounts that carry the authentication-required label.
HiddenDids ==
  {upstreamFollows[k].did :
     k \in {j \in 1..Len(upstreamFollows) :
              \E v \in Range(upstreamFollows[j].labels.vals) :
                v = NoUnauthenticated}}

\* The list left when the profiles of the given accounts are taken out.
Without(list, dids) == SelectSeq(list, LAMBDA p : p.did \notin dids)

\* C11: an account with the authentication-required label is never sent a
\* feed request, adds no post and has no entry in the returned cursor map,
\* whatever the supplied cursor map holds; all other accounts stay in the
\* filtered follow list in the order the collaborator gave.
C11_LabelledAccountsDropped ==
  LET hidden == HiddenDids
  IN  /\ {r.actor : r \in Range(FeedRequests)} \cap hidden = {}
      /\ pc \in {"batch", "resolved"} =>
           follows = Without(upstreamFollows, hidden)
      /\ pc = "resolved" =>
           /\ hidden \cap DOMAIN ResultMap = {}
           /\ \A d \in hidden : \A e \in Range(UpstreamFeed(AcctOf(d))) :
                e.post.uri \notin ResultUris

\* C11 witness: a call that was handed a cursor map with an entry for the
\* labelled account resolved, with the accounts carrying other labels or an
\* empty label list among those asked.
C11_Witness ==
  /\ pc = "resolved"
  /\ cursorMap # 0
  /\ HiddenDids \cap DOMAIN maps[cursorMap] # {}
  /\ {Did("B"), Did("C")} \subseteq FollowDids
  /\ result.posts # << >>
\* C12: a call rejects exactly when the identity request or the follow-list
\* request threw; it then rejects with that very error and has sent no feed
\* request; and a call in which a feed request failed has not rejected.
C12_RejectsOnlyOnResolveOrFollows ==
  /\ pc = "rejected" <=> thrown # NoError
  /\ pc = "rejected" =>
       /\ result.error = thrown
       /\ thrown = (IF netLog[Len(netLog)].op = "resolveHandle"
                    THEN ResolveError ELSE FollowsError)
       /\ FeedRequests = << >>
  /\ pc = "resolved" => result.error = NoError
  /\ Failed # {} => pc # "rejected"

\* C12 witness: a call given a handle rejected because the follow-list
\* request threw after the identity request had succeeded.
C12_Witness ==
  /\ pc = "rejected"
  /\ handle = RootHandle
  /\ did = RootDid
  /\ result.error = FollowsError
\* The feed the request for account d was answered with in the current call
\* (nothing while it is pending or when it failed).
FeedGiven(d) ==
  IF \E q \in respLog : q.actor = d /\ q.ok
  THEN (CHOOSE q \in respLog : q.actor = d /\ q.ok).feed
  ELSE << >>

\* The posts of the first n accounts of the filtered follow list, account
\* after account in the order of the list, the root's own posts left out.
InFollowOrder(n) ==
  LET feeds == [k \in 1..n |-> FeedGiven(follows[k].did)]
      kept  == SelectSeq(Flat(feeds), LAMBDA f : f.post.author.did # did)
  IN  [k \in 1..Len(kept) |-> ToPost(kept[k])]

\* C13: whatever the order in which the requests of a batch complete, the
\* posts gathered so far are those of the accounts of the completed batches
\* in follow-list order, the posts a call resolves with are the sort of the
\* posts of all accounts in follow-list order, and the Map being built holds
\* for each account nothing but the token of that account's own response.
C13_CompletionOrderIrrelevant ==
  /\ pc = "batch" => allPosts = InFollowOrder(i)
  /\ pc = "resolved" => result.posts = SortPosts(InFollowOrder(Len(follows)))
  /\ pc \in {"batch", "resolved"} =>
       /\ DOMAIN maps[newCursorMap] = {q.actor : q \in GaveToken}
       /\ \A q \in GaveToken : maps[newCursorMap][q.actor] = q.cursor

\* C13 witness: in a batch after the first, the request of the second slot
\* has delivered posts and a token while that of the first slot is pending,
\* and posts of an earlier batch are already gathered.
C13_Witness ==
  /\ pc = "batch"
  /\ i > 0
  /\ allPosts # << >>
  /\ Len(feedPromises) >= 2
  /\ feedPromises[1].state = "pending"
  /\ feedPromises[2].state = "fulfilled"
  /\ feedPromises[2].value # << >>
  /\ batch[2].did \in DOMAIN maps[newCursorMap]
\* C15: the feed requests a call has sent are, in order, one for each account
\* of the filtered follow list up to the end of the current batch, all of
\* them when it resolves; no account is asked twice, a failed request
\* included, and no request has more than one outcome.
C15_OneRequestPerAccount ==
  LET requests == FeedRequests
      asked == [k \in 1..Len(requests) |-> requests[k].actor]
  IN  /\ Cardinality(Range(asked)) = Len(asked)
      /\ Cardinality({q.actor : q \in respLog}) = Cardinality(respLog)
      /\ pc = "batch" =>
           asked = [k \in 1..(i + Len(batch)) |-> follows[k].did]
      /\ pc = "resolved" =>
           asked = [k \in 1..Len(follows) |-> follows[k].did]

\* C15 witness: a call resolved after more than one batch, two of its
\* requests having failed.
C15_Witness ==
  /\ pc = "resolved"
  /\ Len(FeedRequests) > 5
  /\ Cardinality(Failed) >= 2
\* The "reposted by" a Post must carry for the raw entry e: the actor of the
\* repost reason the collaborator attached, or nothing.
RepostedByOf(e) ==
  IF e.reason.present /\ e.reason.type = ReasonRepost
  THEN [present |-> TRUE, did |-> e.reason.by]
  ELSE NoRepost

\* C19 (as claimed): every entry delivered with a repost reason and kept is
\* returned as a Post whose "reposted by" is the actor of the reason, and
\* every entry delivered without one as a Post with "reposted by" absent.
C19_RepostedByFromReason ==
  pc = "resolved" =>
    \A q \in respLog : \A e \in Range(q.feed) :
      e.post.author.did # did =>
        \E k \in 1..Len(result.posts) :
          /\ result.posts[k].uri = e.post.uri
          /\ result.posts[k].repostedBy = RepostedByOf(e)
\* The resolution requests of the current call.
ResolveRequests == SelectSeq(netLog, LAMBDA r : r.op = "resolveHandle")

\* The input has the fully-qualified form: it begins with 'did:'.
IsDidForm(h) ==
  Len(h) >= 4 /\ h[1] = "d" /\ h[2] = "i" /\ h[3] = "d" /\ h[4] = ":"

\* C16: for an input that begins with 'did:' no resolution request is made
\* and the identifier is the input itself; for any other input exactly one
\* resolution request is made, for that input, and the identifier is the
\* collaborator's answer, or the collaborator's error ends the call with that
\* error before any other request.
C16_ResolveHandle ==
  pc # "idle" =>
    IF IsDidForm(handle)
    THEN /\ ResolveRequests = << >>
         /\ pc = "resolveHandle" => did = undefined /\ netLog = << >>
         /\ pc # "resolveHandle" => did = handle
         /\ thrown # ResolveError
    ELSE /\ Len(ResolveRequests) = 1
         /\ ResolveRequests[1].actor = handle
         /\ netLog[1] = ResolveRequests[1]
         /\ pc = "resolveHandle" => did = undefined
         /\ pc \notin {"resolveHandle", "rejected"} => did = Resolved(handle)
         /\ thrown = ResolveError =>
              pc = "rejected" /\ result.error = ResolveError /\ Len(netLog) = 1

\* C16 witness: a call given the handle 'did.t', which begins with 'did' but
\* not with 'did:', resolved with the identifier the collaborator answered.
C16_Witness ==
  /\ handle = DidLikeHandle
  /\ pc = "resolved"
  /\ Len(ResolveRequests) = 1
  /\ did = RootDid
  /\ result.posts # << >>
\* The getMergedTimeline call a step starts, and the one a step settles.
Started == {c \in pending' \ pending : c.fn = "getMergedTimeline"}
Ended == {c \in pending \ pending' : c.fn = "getMergedTimeline"}

\* C14 (as claimed): a call that opens or refreshes passes no cursor map, and
\* a call that loads more passes the cursor map stored last, which was
\* returned by a fetch for the very handle the call is made for.
C14_OwnCursorMap ==
  [][\A c \in Started :
       IF c.kind = "more"
       THEN /\ c.cursorMap = app.cursorMap
            /\ c.cursorMap # NoMap
            /\ c.cursorMap.root = c.handle
       ELSE c.cursorMap = NoMap]_vars

\* C20: the step in which a getMergedTimeline call settles either sets the
\* generic message and leaves the posts shown and the cursor map stored as
\* they were (the call rejected), or leaves the message alone, shows the posts
\* returned, after those shown when more was loaded and in their place
\* otherwise, and stores the cursor map returned (the call resolved); the
\* step that starts a fetch clears the error.
C20_FetchOutcome ==
  [][/\ fetches' > fetches => app'.error = Null
     /\ \A c \in Ended :
          \/ /\ app'.error = TimelineError
             /\ app'.posts = app.posts
             /\ app'.cursorMap = app.cursorMap
          \/ \E r \in MergedResults(c.id, c.handle) :
               /\ app'.error = app.error
               /\ app'.posts = IF c.kind = "more" THEN app.posts \o r.posts
                               ELSE r.posts
               /\ app'.cursorMap = r.cursorMap]_vars

\* C20 witness: after an earlier fetch had resolved with posts, the last
\* getMergedTimeline call to end was rejected: the message is shown, the posts
\* and the cursor map are still there, and nothing is awaited.
C20_Witness ==
  /\ fetches >= 2
  /\ pending = {}
  /\ app.error = TimelineError
  /\ app.posts # << >>
  /\ app.cursorMap # NoMap
  /\ app.viewingUser = NoUser
\* The follow-list requests made: by the current getMergedTimeline call and
\* by a call of the exported helper.
FollowsRequests ==
  {netLog[k] : k \in {j \in 1..Len(netLog) : netLog[j].op = "getFollows"}}
    \cup {r \in Range(api.netLog) : r.op = "getFollows"}

\* C17 (as claimed): every follow-list request asks for at most 30 accounts,
\* in one page, and a call sends at most 30 feed requests in at most 6
\* batches.
C17_FollowsCap ==
  /\ \A r \in FollowsRequests : r.limit = 30 /\ r.cursor = undefined
  /\ Len(FeedRequests) <= 30
  /\ Len(batchLog) <= 6

\* C18: a call of getUserTimeline sends one request and no more, a feed
\* request for the account given with limit 20 and no cursor; when it is
\* answered the call resolves with one Post for each entry of the answer, in
\* the order of the answer; when it fails the call rejects with the error.
C18_UserTimeline ==
  api.fn = "getUserTimeline" =>
    /\ api.netLog = << Request(0, "getAuthorFeed", api.actor, 20, undefined) >>
    /\ api.pc = "fulfilled" =>
         /\ Len(api.value) = Len(api.answer)
         /\ \A k \in 1..Len(api.answer) :
              /\ api.value[k].uri = api.answer[k].post.uri
              /\ api.value[k].author.did = api.answer[k].post.author.did
              /\ api.value[k].indexedAt = api.answer[k].post.indexedAt
    /\ api.pc = "rejected" <=> api.error = FeedError
    /\ api.pc = "rejected" => api.value = << >>

\* C18 witness: getUserTimeline resolved with two posts, the older one
\* first, one of them by the account itself.
C18_Witness ==
  /\ api.fn = "getUserTimeline"
  /\ api.pc = "fulfilled"
  /\ Len(api.value) = 2
  /\ DateGetTime(api.value[1].indexedAt) < DateGetTime(api.value[2].indexedAt)
  /\ \E k \in 1..2 : api.value[k].author.did = api.actor
\* The load-more calls in flight.
LoadingMore == {c \in pending : c.kind = "more"}

\* C21 (as claimed): at most one load-more call is in flight, loadingMore is
\* true as long as one is, and no two load-more calls in flight carry the
\* same cursor map.
C21_OneLoadMore ==
  /\ Cardinality(LoadingMore) <= 1
  /\ LoadingMore # {} => app.loadingMore
  /\ \A c, d \in LoadingMore : c.cursorMap = d.cursorMap => c = d
\* C22 (as claimed): in App, when a single account is viewed, nothing is
\* awaited and no error is shown, the posts shown are what a getUserTimeline
\* call for that account resolved with.
C22_UserViewShowsUserTimeline ==
  (/\ app.screen = "App"
   /\ app.viewingUser # NoUser
   /\ pending = {}
   /\ app.error = Null) =>
    \E id \in 1..fetches : app.posts \in UserResults(id, app.viewingUser)
\* The progress flags of the component are all down.
FlagsDown == ~app.loading /\ ~app.refreshing /\ ~app.loadingMore

\* C23: a getMergedTimeline call that has started resolves or rejects in the
\* end; the fetches a component has started all settle in the end; and
\* whenever a component that has started a fetch awaits nothing, loading,
\* refreshing and loadingMore are all false.
C23_Terminates ==
  /\ (pc \in {"resolveHandle", "getFollows", "batch"})
       ~> (pc \in {"resolved", "rejected"})
  /\ (pending # {}) ~> (pending = {} /\ FlagsDown)
  /\ [](fetches > 0 /\ pending = {} => FlagsDown)

\* C23 witness: a component has started several fetches, the last to settle,
\* a getUserTimeline call, failed; nothing is awaited and the flags are down.
C23_Witness ==
  /\ fetches >= 3
  /\ pending = {}
  /\ app.error = UserError
  /\ app.posts # << >>
  /\ FlagsDown
====
